---- MODULE Spec2Model ----
(***************************************************************************)
(* A model of core/dictionary_manager.py (class DictionaryManager): the    *)
(* in-memory Lexicon, its two backing files, the backup files, the CSV     *)
(* mirror, and the operations add_word, manual_add_word, remove_word and   *)
(* import_dictionary_from_csv with the save_data and                       *)
(* export_dictionary_to_csv calls they make; of the DefinitionModule that   *)
(* TaskManager opens on the same files; of ConfidenceModule; and of        *)
(* add_word run by the GUI's worker threads.                               *)
(*                                                                         *)
(* A text (a Python str) is a sequence of symbols, one per character.  A   *)
(* Python dict is a function from its keys to its values: the order in     *)
(* which a dict yields its items is not modelled.                          *)
(***************************************************************************)
EXTENDS Integers, Sequences, FiniteSets, TLC

VARIABLES
    dictionary,     \* self.dictionary: language -> word -> entry
    language_data,  \* self.language_data
    dictFile,       \* the file at dictionary_path
    langFile,       \* the file at language_data_path
    csvFile,        \* the file at export_csv_path (the CSV mirror)
    backups,        \* the files <path>.backup.<timestamp>
    now,            \* the clock, in seconds (datetime.now())
    fault,          \* the I/O failure the file system will raise next
    faults,         \* how many I/O failures were injected so far
    last,           \* the last operation called and what it returned
    definition_module,  \* the DefinitionModule: its language and self.dictionary
    workers         \* the GUI's worker threads, each inside one add_word call

vars == <<dictionary, language_data, dictFile, langFile, csvFile, backups, now,
          fault, faults, last, definition_module, workers>>

(***************************************************************************)
(* Bounds of the model.                                                    *)
(***************************************************************************)
MaxFaults == 1

\* The clock, in seconds, runs from 0 to MaxClock.
MaxClock == 1

\* The add_word calls that run at the same time.
MaxWorkers == 2

(***************************************************************************)
(* Texts.                                                                  *)
(***************************************************************************)
\* Python's None, where a str is expected.
None == <<"None">>

\* str.lower() on one character.
LowerChar(c) ==
    CASE c = "A" -> "a"
      [] c = "P" -> "p"
      [] c = "E" -> "e"
      [] c = "N" -> "n"
      [] OTHER -> c

\* str.lower()
Lower(s) == [i \in 1..Len(s) |-> LowerChar(s[i])]

\* str.isspace() on one character.
IsSpace(c) == c = " "

RECURSIVE LStrip(_)
LStrip(s) == IF s # <<>> /\ IsSpace(Head(s)) THEN LStrip(Tail(s)) ELSE s

RECURSIVE RStrip(_)
RStrip(s) ==
    IF s # <<>> /\ IsSpace(s[Len(s)]) THEN RStrip(SubSeq(s, 1, Len(s) - 1)) ELSE s

\* str.strip()
Strip(s) == RStrip(LStrip(s))

\* Python's truth value of an Optional[str].
Truthy(s) == s # None /\ s # <<>>

\* word.strip(), without the lower(): a normalisation that keeps the case
NormalizeWordKeepsCase(word) == Strip(word)

\* word.lower().strip(), the normal form of a word key.
NormalizeWord(word) == Strip(Lower(word))

(***************************************************************************)
(* Python dicts.                                                           *)
(***************************************************************************)
\* {}
EmptyDict == [k \in {} |-> <<>>]

\* key in d
Has(d, k) == k \in DOMAIN d

\* d[key], for a key of d
Get(d, k) == d[k]

\* d[key] = value
Put(d, k, v) == [x \in DOMAIN d \cup {k} |-> IF x = k THEN v ELSE d[x]]

\* del d[key]
Del(d, k) == [x \in DOMAIN d \ {k} |-> d[x]]

\* dict.get(key, default)
DictGet(d, k, default) == IF k \in DOMAIN d THEN d[k] ELSE default

\* The elements of a set, one after the other in some order.
RECURSIVE SetToSeq(_)
SetToSeq(S) ==
    IF S = {} THEN <<>>
    ELSE LET x == CHOOSE y \in S : TRUE IN <<x>> \o SetToSeq(S \ {x})

\* ord(c)
CodePoint(c) ==
    CASE c = " " -> 32 [] c = "A" -> 65 [] c = "E" -> 69 [] c = "N" -> 78
      [] c = "P" -> 80 [] c = "a" -> 97 [] c = "b" -> 98 [] c = "c" -> 99
      [] c = "d" -> 100 [] c = "e" -> 101 [] c = "n" -> 110 [] c = "p" -> 112
      [] c = "x" -> 120 [] OTHER -> 0

\* s < t, for two str
RECURSIVE Before(_, _)
Before(s, t) ==
    IF s = <<>> THEN t # <<>>
    ELSE IF t = <<>> THEN FALSE
    ELSE IF Head(s) = Head(t) THEN Before(Tail(s), Tail(t))
    ELSE CodePoint(Head(s)) < CodePoint(Head(t))

\* sorted(list(S))
RECURSIVE Sorted(_)
Sorted(S) ==
    IF S = {} THEN <<>>
    ELSE LET x == CHOOSE y \in S : \A z \in S \ {y} : Before(y, z)
         IN  <<x>> \o Sorted(S \ {x})

Entry(definition, part_of_speech, example) ==
    [definition |-> definition, part_of_speech |-> part_of_speech, example |-> example]

(***************************************************************************)
(* Files.                                                                  *)
(***************************************************************************)
\* A JSON file holding data.
JsonFile(data) == [exists |-> TRUE, valid |-> TRUE, data |-> data]

\* A file that open(path, 'w') truncated and json.dump did not complete.
Truncated == [exists |-> TRUE, valid |-> FALSE, data |-> EmptyDict]

NoFile == [exists |-> FALSE, valid |-> FALSE, data |-> EmptyDict]

EN == <<"e", "n">>

\* The registry ensure_files_exist writes when there is none.
DefaultLanguages ==
    [code \in {EN, <<"p", "t">>, <<"e", "s">>, <<"f", "r">>} |->
        CASE code = EN -> "English"
          [] code = <<"p", "t">> -> "Portugues"
          [] code = <<"e", "s">> -> "Espanol"
          [] code = <<"f", "r">> -> "Francais"]

\* The header export_dictionary_to_csv writes.
Fieldnames == <<"word", "definition", "part_of_speech", "example">>

NoCsv == [exists |-> FALSE, header |-> <<>>, lines |-> <<>>]

(***************************************************************************)
(* Messages: sequences of words, so that a caller's substring test can be  *)
(* stated.                                                                 *)
(***************************************************************************)
MsgEmptyWord == <<"A", "palavra", "nao", "pode", "estar", "vazia", ".">>
MsgExists == <<"Palavra", "ja", "existe", "no", "dicionario", ".">>
MsgManual ==
    <<"Definicao", "e", "exemplo", "nao", "encontrados", "na", "API", ".",
      "Por", "favor", ",", "forneca", "manualmente", ".">>
MsgRequired ==
    <<"Definicao", ",", "classe", "gramatical", "e", "exemplo", "sao",
      "obrigatorios", ".">>
MsgAdded == <<"Palavra", "adicionada", "com", "sucesso", ".">>
MsgRemoved == <<"Palavra", "removida", "com", "sucesso", ".">>
MsgNotFound == <<"Palavra", "nao", "encontrada", "no", "dicionario", ".">>
MsgNoCsv == <<"Arquivo", "CSV", "nao", "encontrado", ".">>
MsgImported(added, skipped) ==
    <<"Dicionario", "importado", "com", "sucesso", ".", ToString(added),
      "palavras", "adicionadas", ",", ToString(skipped), "palavras",
      "ignoradas", ".">>
MsgImportError ==
    <<"Erro", "ao", "importar", "dicionario", ":", "'NoneType'", "object",
      "has", "no", "attribute">>

\* "manualmente" in message
HasManualMarker(message) == \E i \in 1..Len(message) : message[i] = "manualmente"

Result(op, ok, msg) == [op |-> op, ok |-> ok, msg |-> msg]

(***************************************************************************)
(* Inputs.                                                                 *)
(***************************************************************************)
\* Words as callers type them: "Ap", "ap ", " AP", "b" and " ".
Words == {<<"A", "p">>, <<"a", "p", " ">>, <<" ", "A", "P">>, <<"b">>, <<" ">>}

\* The words of the runs in which the file system fails: "Ap", "b" and " ".
WordsIO == {<<"A", "p">>, <<"b">>, <<" ">>}

\* Language codes as callers pass them: "en" and "EN".
Languages == {EN, <<"E", "N">>}

D1 == <<"d">>
D2 == <<" ", "x", " ">>
POS == <<"n">>
EX == <<"e", " ">>

\* (definition, part_of_speech, example) as passed to add_word.
AddArgs == {<<None, None, None>>, <<D1, POS, EX>>}

\* (definition, part_of_speech, example) as passed to manual_add_word.
ManualArgs ==
    {<<D2, POS, EX>>, <<<<>>, POS, EX>>, <<D1, <<>>, EX>>, <<D1, POS, <<>>>>}

\* What requests.get returns: a status code and the decoded JSON body.
Api404 == [status |-> 404, data |-> <<>>]
ApiFull ==
    [status |-> 200,
     data |-> << [meanings |-> <<
        [partOfSpeech |-> <<"n">>,
         definitions |-> << [definition |-> <<"x", " ">>, example |-> <<"e">>] >>] >>] >>]
ApiResponses == {Api404, ApiFull}

\* Answers of the API that lack a field or hold an empty one: no "example" key,
\* no "partOfSpeech" key, and a "definition" that is the empty string.
ApiNoExample ==
    [status |-> 200,
     data |-> << [meanings |-> <<
        [partOfSpeech |-> <<"n">>,
         definitions |-> << [definition |-> <<"x">>] >>] >>] >>]
ApiNoPartOfSpeech ==
    [status |-> 200,
     data |-> << [meanings |-> <<
        [definitions |-> << [definition |-> <<"x">>, example |-> <<"e">>] >>] >>] >>]
ApiEmptyDefinition ==
    [status |-> 200,
     data |-> << [meanings |-> <<
        [partOfSpeech |-> <<"n">>,
         definitions |-> << [definition |-> <<>>, example |-> <<"e">>] >>] >>] >>]
ApiResponsesFields ==
    {Api404, ApiFull, ApiNoExample, ApiNoPartOfSpeech, ApiEmptyDefinition}

\* A field a caller left blank: " ".
Blank == <<" ">>

\* The words, and the (definition, part_of_speech, example) passed to add_word
\* and to manual_add_word, of the runs in which callers pass blank fields.
WordsFields == {<<"A", "p">>, <<"b">>}
AddArgsFields ==
    {<<None, None, None>>, <<Blank, POS, EX>>, <<D1, POS, Blank>>,
     <<D1, None, None>>, <<D1, POS, <<>>>>}
ManualArgsFields ==
    {<<D2, POS, EX>>, <<Blank, POS, EX>>, <<D1, Blank, EX>>, <<D1, POS, Blank>>}

\* The lines of the CSV files offered to import_dictionary_from_csv.
LineAp == <<<<"A", "p">>, D1, POS, EX>>
LineAp2 == <<<<"a", "p", " ">>, D2, POS, EX>>
LineB == <<<<"b">>, D2, POS, EX>>
LineBNoExample == <<<<"b">>, D1, POS, <<>>>>
LineCNoDefinition == <<<<"c">>, <<" ">>, POS, EX>>
LineShort == <<<<"b">>, D1>>

CsvFile(lines) == [exists |-> TRUE, header |-> Fieldnames, lines |-> lines]

\* A file holding the one line "invalid, csv, content": csv.DictReader takes
\* the first line of a file for its header, and this file has no other.
InvalidCsv ==
    [exists |-> TRUE, header |-> <<"invalid", " csv", " content">>, lines |-> <<>>]

ImportFiles ==
    {NoCsv,
     InvalidCsv,
     CsvFile(<<>>),
     CsvFile(<<LineCNoDefinition, LineAp, LineBNoExample>>),
     CsvFile(<<LineAp, LineCNoDefinition, LineB>>),
     CsvFile(<<LineAp, LineAp2, LineB>>),
     CsvFile(<<LineAp2, LineShort, LineB>>)}

\* The steps of save_data that can fail: the two backup copies, the two
\* writes, the validation that reads the files back.
FaultsSave == {"copy_dict", "copy_lang", "write_dict", "write_lang", "validate"}

\* The I/O failures the file system can raise.
Faults == {"copy_dict", "write_dict", "export"}

(***************************************************************************)
(* save_data, export_dictionary_to_csv, fetch_definition_from_api.         *)
(***************************************************************************)
\* validate_json(path)
ValidateJson(file) == file.exists /\ file.valid

\* A save_data that does not read what validate_json returns.
SaveDataIgnoresValidation(dict, lang) ==
    LET b1 == Put(backups, <<"dictionary", now>>, dictFile)
        b2 == Put(b1, <<"language_data", now>>, langFile)
        Outcome(ok, df, lf, b) ==
            [ok |-> ok, dictFile |-> df, langFile |-> lf, backups |-> b]
    IN  IF ~dictFile.exists \/ fault = "copy_dict"
            THEN Outcome(FALSE, dictFile, langFile, backups)
        ELSE IF ~langFile.exists \/ fault = "copy_lang"
            THEN Outcome(FALSE, dictFile, langFile, b1)
        ELSE IF fault = "write_dict"
            THEN Outcome(FALSE, Truncated, langFile, b2)
        ELSE IF fault = "write_lang"
            THEN Outcome(FALSE, JsonFile(dict), Truncated, b2)
        ELSE Outcome(TRUE, JsonFile(dict), JsonFile(lang), b2)

\* save_data(), saving dict and lang: what it returns and the files it leaves.
SaveData(dict, lang) ==
    LET b1 == Put(backups, <<"dictionary", now>>, dictFile)
        b2 == Put(b1, <<"language_data", now>>, langFile)
        Outcome(ok, df, lf, b) ==
            [ok |-> ok, dictFile |-> df, langFile |-> lf, backups |-> b]
    IN  IF ~dictFile.exists \/ fault = "copy_dict"
            THEN Outcome(FALSE, dictFile, langFile, backups)
        ELSE IF ~langFile.exists \/ fault = "copy_lang"
            THEN Outcome(FALSE, dictFile, langFile, b1)
        ELSE IF fault = "write_dict"
            THEN Outcome(FALSE, Truncated, langFile, b2)
        ELSE IF fault = "write_lang"
            THEN Outcome(FALSE, JsonFile(dict), Truncated, b2)
        ELSE Outcome(fault # "validate"
                        /\ ValidateJson(JsonFile(dict)) /\ ValidateJson(JsonFile(lang)),
                     JsonFile(dict), JsonFile(lang), b2)

\* The rows export_dictionary_to_csv writes for one bucket.
CsvLines(bucket) ==
    LET words == SetToSeq(DOMAIN bucket)
    IN  [i \in 1..Len(words) |->
            <<words[i], bucket[words[i]].definition,
              bucket[words[i]].part_of_speech, bucket[words[i]].example>>]

\* export_dictionary_to_csv(language, export_csv_path) on dict: what it returns
\* and the mirror it leaves.
ExportDictionaryToCsv(dict, language) ==
    LET key == Strip(Lower(language))
    IN  IF ~Has(dict, key) THEN [ok |-> FALSE, csvFile |-> csvFile]
        ELSE IF fault = "export" THEN [ok |-> FALSE, csvFile |-> csvFile]
        ELSE [ok |-> TRUE, csvFile |-> CsvFile(CsvLines(Get(dict, key)))]

NotFetched == [found |-> FALSE]

\* fetch_definition_from_api(word, language), given the API's response.
FetchDefinitionFromApi(response) ==
    IF response.status = 200 /\ Len(response.data) > 0
        THEN LET meanings == DictGet(response.data[1], "meanings", <<>>)
             IN  IF Len(meanings) > 0
                     THEN LET definitions == DictGet(meanings[1], "definitions", <<>>)
                          IN  IF Len(definitions) > 0
                                  THEN [found |-> TRUE,
                                        definition |->
                                            DictGet(definitions[1], "definition",
                                                    <<"Definicao nao disponivel.">>),
                                        part_of_speech |->
                                            DictGet(meanings[1], "partOfSpeech", <<"N/A">>),
                                        example |->
                                            DictGet(definitions[1], "example",
                                                    <<"Exemplo nao disponivel.">>)]
                                  ELSE NotFetched
                     ELSE NotFetched
        ELSE NotFetched

\* What a call leaves behind: self.dictionary, the files and what it returned.
\* A call that returns before save_data() leaves the files as they are.
Returned(dict, result) ==
    [dictionary |-> dict, dictFile |-> dictFile, langFile |-> langFile,
     csvFile |-> csvFile, backups |-> backups, fault |-> fault, last |-> result]

\* A call that ends with self.save_data() followed by
\* self.export_dictionary_to_csv(language, self.export_csv_path), neither
\* result being read, and then returns result.
Persisted(dict, language, result) ==
    LET saved == SaveData(dict, language_data)
        exported == ExportDictionaryToCsv(dict, language)
    IN  [dictionary |-> dict, dictFile |-> saved.dictFile,
         langFile |-> saved.langFile, csvFile |-> exported.csvFile,
         backups |-> saved.backups, fault |-> "none", last |-> result]

\* if language not in self.dictionary: self.dictionary[language] = {}
WithBucket(dict, language) ==
    IF Has(dict, language) THEN dict ELSE Put(dict, language, EmptyDict)

\* self.dictionary[language][word] = entry
Store(dict, language, word, entry) ==
    Put(dict, language, Put(Get(dict, language), word, entry))

(***************************************************************************)
(* The operations of DictionaryManager, each as what one call, from its    *)
(* first line to its return, leaves behind.                                *)
(***************************************************************************)
\* An add_word that keeps the fields the caller supplied and takes from the
\* fetched record only those that are missing.
AddWordKeepsSupplied(word, language, definition, part_of_speech, example, response) ==
    LET w == NormalizeWord(word)
        Ret(ok, msg) == Result("add_word", ok, msg)
        dict == WithBucket(dictionary, language)
        complete == Truthy(definition) /\ Truthy(part_of_speech) /\ Truthy(example)
        fetched_data == FetchDefinitionFromApi(response)
        d == IF Truthy(definition) THEN definition ELSE fetched_data.definition
        p == IF Truthy(part_of_speech) THEN part_of_speech ELSE fetched_data.part_of_speech
        e == IF Truthy(example) THEN example ELSE fetched_data.example
        stored == Store(dict, language, w,
                        Entry(Strip(d), Strip(p), IF Truthy(e) THEN Strip(e) ELSE <<>>))
    IN  IF w = <<>> THEN Returned(dictionary, Ret(FALSE, MsgEmptyWord))
        ELSE IF Has(Get(dict, language), w) THEN Returned(dict, Ret(FALSE, MsgExists))
        ELSE IF ~complete /\ ~fetched_data.found
            THEN Returned(dict, Ret(FALSE, MsgManual))
        ELSE Persisted(stored, language, Ret(TRUE, MsgAdded))

\* add_word(word, language, definition, part_of_speech, example), the API
\* answering with response if it is asked: what the call leaves behind.
AddWordOutcome(word, language, definition, part_of_speech, example, response) ==
    LET w == NormalizeWord(word)
        Ret(ok, msg) == Result("add_word", ok, msg)
        dict == WithBucket(dictionary, language)
        complete == Truthy(definition) /\ Truthy(part_of_speech) /\ Truthy(example)
        fetched_data == FetchDefinitionFromApi(response)
        d == IF complete THEN definition ELSE fetched_data.definition
        p == IF complete THEN part_of_speech ELSE fetched_data.part_of_speech
        e == IF complete THEN example ELSE fetched_data.example
        stored == Store(dict, language, w,
                        Entry(Strip(d), Strip(p), IF Truthy(e) THEN Strip(e) ELSE <<>>))
    IN  IF w = <<>> THEN Returned(dictionary, Ret(FALSE, MsgEmptyWord))
        ELSE IF Has(Get(dict, language), w) THEN Returned(dict, Ret(FALSE, MsgExists))
        ELSE IF ~complete /\ ~fetched_data.found
            THEN Returned(dict, Ret(FALSE, MsgManual))
        ELSE Persisted(stored, language, Ret(TRUE, MsgAdded))

\* manual_add_word(word, language, definition, part_of_speech, example)
ManualAddWordOutcome(word, language, definition, part_of_speech, example) ==
    LET w == NormalizeWord(word)
        Ret(ok, msg) == Result("manual_add_word", ok, msg)
        dict == WithBucket(dictionary, language)
        stored == Store(dict, language, w,
                        Entry(Strip(definition), Strip(part_of_speech), Strip(example)))
    IN  IF w = <<>> THEN Returned(dictionary, Ret(FALSE, MsgEmptyWord))
        ELSE IF Has(Get(dict, language), w) THEN Returned(dict, Ret(FALSE, MsgExists))
        ELSE IF ~(Truthy(definition) /\ Truthy(part_of_speech) /\ Truthy(example))
            THEN Returned(dict, Ret(FALSE, MsgRequired))
        ELSE Persisted(stored, language, Ret(TRUE, MsgAdded))

\* A remove_word that saves and exports also when the word is absent.
RemoveWordSavesAnyway(word, language) ==
    LET w == NormalizeWord(word)
        Ret(ok, msg) == Result("remove_word", ok, msg)
        removed == Put(dictionary, language, Del(Get(dictionary, language), w))
    IN  IF Has(dictionary, language) /\ Has(Get(dictionary, language), w)
            THEN Persisted(removed, language, Ret(TRUE, MsgRemoved))
            ELSE Persisted(dictionary, language, Ret(FALSE, MsgNotFound))

\* remove_word(word, language)
RemoveWordOutcome(word, language) ==
    LET w == NormalizeWord(word)
        Ret(ok, msg) == Result("remove_word", ok, msg)
        removed == Put(dictionary, language, Del(Get(dictionary, language), w))
    IN  IF Has(dictionary, language) /\ Has(Get(dictionary, language), w)
            THEN Persisted(removed, language, Ret(TRUE, MsgRemoved))
            ELSE Returned(dictionary, Ret(FALSE, MsgNotFound))

\* csv.DictReader(csvfile): one dict per non-empty data line, keyed by the
\* header's names; a line shorter than the header leaves None in the rest.
DictReader(file) ==
    LET lines == SelectSeq(file.lines, LAMBDA line : line # <<>>)
        names == {file.header[j] : j \in 1..Len(file.header)}
        Column(name) ==
            CHOOSE j \in 1..Len(file.header) :
                /\ file.header[j] = name
                /\ \A k \in 1..Len(file.header) : file.header[k] = name => k <= j
    IN  [i \in 1..Len(lines) |->
            [name \in names |->
                IF Column(name) <= Len(lines[i]) THEN lines[i][Column(name)] ELSE None]]

\* A pass of the loop that replaces the entry of a word already in the bucket,
\* the alternative the comment in the else branch of the loop mentions.
ImportRowOverwrites(st, key, row) ==
    LET w0 == DictGet(row, "word", <<>>)
        d0 == DictGet(row, "definition", <<>>)
        p0 == DictGet(row, "part_of_speech", <<>>)
        e0 == DictGet(row, "example", <<>>)
        dict == WithBucket(st.dict, key)
    IN  IF None \in {w0, d0, p0, e0}
            THEN [st EXCEPT !.raised = TRUE]
        ELSE IF Strip(Lower(w0)) = <<>> \/ Strip(d0) = <<>> \/ Strip(p0) = <<>>
            THEN [st EXCEPT !.skipped = @ + 1]
        ELSE [st EXCEPT
                 !.dict = Store(dict, key, Strip(Lower(w0)),
                                Entry(Strip(d0), Strip(p0), Strip(e0))),
                 !.added = @ + 1]

\* A pass of the loop that also skips a row whose example is empty.
ImportRowNeedsExample(st, key, row) ==
    LET w0 == DictGet(row, "word", <<>>)
        d0 == DictGet(row, "definition", <<>>)
        p0 == DictGet(row, "part_of_speech", <<>>)
        e0 == DictGet(row, "example", <<>>)
        dict == WithBucket(st.dict, key)
    IN  IF None \in {w0, d0, p0, e0}
            THEN [st EXCEPT !.raised = TRUE]
        ELSE IF Strip(Lower(w0)) = <<>> \/ Strip(d0) = <<>> \/ Strip(p0) = <<>>
                \/ Strip(e0) = <<>>
            THEN [st EXCEPT !.skipped = @ + 1]
        ELSE IF ~Has(Get(dict, key), Strip(Lower(w0)))
            THEN [st EXCEPT
                     !.dict = Store(dict, key, Strip(Lower(w0)),
                                    Entry(Strip(d0), Strip(p0), Strip(e0))),
                     !.added = @ + 1]
        ELSE [st EXCEPT !.dict = dict, !.skipped = @ + 1]

\* One pass of the loop of import_dictionary_from_csv, on row; key is
\* language.lower(); st holds self.dictionary, the two counters and whether an
\* exception was raised.
ImportRow(st, key, row) ==
    LET w0 == DictGet(row, "word", <<>>)
        d0 == DictGet(row, "definition", <<>>)
        p0 == DictGet(row, "part_of_speech", <<>>)
        e0 == DictGet(row, "example", <<>>)
        dict == WithBucket(st.dict, key)
    IN  IF None \in {w0, d0, p0, e0}
            THEN [st EXCEPT !.raised = TRUE]
        ELSE IF Strip(Lower(w0)) = <<>> \/ Strip(d0) = <<>> \/ Strip(p0) = <<>>
            THEN [st EXCEPT !.skipped = @ + 1]
        ELSE IF ~Has(Get(dict, key), Strip(Lower(w0)))
            THEN [st EXCEPT
                     !.dict = Store(dict, key, Strip(Lower(w0)),
                                    Entry(Strip(d0), Strip(p0), Strip(e0))),
                     !.added = @ + 1]
        ELSE [st EXCEPT !.dict = dict, !.skipped = @ + 1]

\* The loop of import_dictionary_from_csv over the rows left to read: it ends
\* with the last row, or at the row that raises.
RECURSIVE ImportRows(_, _, _)
ImportRows(rows, key, st) ==
    IF rows = <<>> \/ st.raised THEN st
    ELSE ImportRows(Tail(rows), key, ImportRow(st, key, Head(rows)))

\* import_dictionary_from_csv(csv_path, language), file being what is at csv_path
ImportDictionaryFromCsvOutcome(file, language) ==
    LET Ret(ok, msg) == Result("import_dictionary_from_csv", ok, msg)
        end == ImportRows(DictReader(file), Lower(language),
                          [dict |-> dictionary, added |-> 0, skipped |-> 0,
                           raised |-> FALSE])
    IN  IF ~file.exists THEN Returned(dictionary, Ret(FALSE, MsgNoCsv))
        ELSE IF end.raised THEN Returned(end.dict, Ret(FALSE, MsgImportError))
        ELSE Persisted(end.dict, language, Ret(TRUE, MsgImported(end.added, end.skipped)))

\* A get_definition that looks the word up as the caller typed it.
GetDefinitionAsTyped(word, language) ==
    IF Has(dictionary, language) /\ Has(Get(dictionary, language), word)
        THEN Returned(dictionary,
                      Result("get_definition", TRUE, Get(Get(dictionary, language), word)))
        ELSE Returned(dictionary, Result("get_definition", FALSE, None))

\* get_definition(word, language): what it returns is the msg of last, the
\* stored entry or None.
GetDefinitionOutcome(word, language) ==
    LET w == NormalizeWord(word)
    IN  IF Has(dictionary, language) /\ Has(Get(dictionary, language), w)
            THEN Returned(dictionary,
                          Result("get_definition", TRUE, Get(Get(dictionary, language), w)))
            ELSE Returned(dictionary, Result("get_definition", FALSE, None))

\* list_words(language): what it returns is the msg of last, the sorted words
\* or None.
ListWordsOutcome(language) ==
    LET key == Strip(Lower(language))
    IN  IF Has(dictionary, key)
            THEN Returned(dictionary,
                          Result("list_words", TRUE, Sorted(DOMAIN Get(dictionary, key))))
            ELSE Returned(dictionary, Result("list_words", FALSE, None))

\* An export that writes the header also when the language has no bucket.
ExportWritesHeaderAnyway(language) ==
    LET key == Strip(Lower(language))
        lines == IF Has(dictionary, key) THEN CsvLines(Get(dictionary, key)) ELSE <<>>
    IN  [dictionary |-> dictionary, dictFile |-> dictFile, langFile |-> langFile,
         csvFile |-> CsvFile(lines), backups |-> backups, fault |-> "none",
         last |-> Result("export_dictionary_to_csv", Has(dictionary, key), <<>>)]

\* export_dictionary_to_csv(language), called on its own: it writes to
\* export_csv_path and returns a bool.
ExportDictionaryToCsvOutcome(language) ==
    LET exported == ExportDictionaryToCsv(dictionary, language)
    IN  [dictionary |-> dictionary, dictFile |-> dictFile, langFile |-> langFile,
         csvFile |-> exported.csvFile, backups |-> backups,
         fault |-> IF Has(dictionary, Strip(Lower(language))) THEN "none" ELSE fault,
         last |-> Result("export_dictionary_to_csv", exported.ok, <<>>)]

(***************************************************************************)
(* The operations of DictionaryManager as actions: each is one call, from  *)
(* its first line to its return.                                           *)
(***************************************************************************)
Call(outcome) ==
    /\ dictionary' = outcome.dictionary
    /\ dictFile' = outcome.dictFile
    /\ langFile' = outcome.langFile
    /\ csvFile' = outcome.csvFile
    /\ backups' = outcome.backups
    /\ fault' = outcome.fault
    /\ last' = outcome.last
    /\ UNCHANGED <<language_data, now, faults, definition_module, workers>>

AddWord(word, language, definition, part_of_speech, example, response) ==
    Call(AddWordOutcome(word, language, definition, part_of_speech, example, response))

ManualAddWord(word, language, definition, part_of_speech, example) ==
    Call(ManualAddWordOutcome(word, language, definition, part_of_speech, example))

RemoveWord(word, language) == Call(RemoveWordOutcome(word, language))

ImportDictionaryFromCsv(file, language) ==
    Call(ImportDictionaryFromCsvOutcome(file, language))

\* save_data(), called on its own: it returns a bool.
SaveDataOutcome ==
    LET saved == SaveData(dictionary, language_data)
    IN  [dictionary |-> dictionary, dictFile |-> saved.dictFile,
         langFile |-> saved.langFile, csvFile |-> csvFile,
         backups |-> saved.backups, fault |-> "none",
         last |-> Result("save_data", saved.ok, <<>>)]

SaveDataCall == Call(SaveDataOutcome)

GetDefinition(word, language) == Call(GetDefinitionOutcome(word, language))

ListWords(language) == Call(ListWordsOutcome(language))

ExportDictionaryToCsvCall(language) == Call(ExportDictionaryToCsvOutcome(language))

(***************************************************************************)
(* The environment: the file system failing, and time passing.             *)
(***************************************************************************)
\* The next I/O call of kind f raises (disk full, permission denied).
InjectFault(f) ==
    /\ fault = "none"
    /\ faults < MaxFaults
    /\ fault' = f
    /\ faults' = faults + 1
    /\ UNCHANGED <<dictionary, language_data, dictFile, langFile, csvFile, backups,
                   now, last, definition_module, workers>>

\* A second of the clock passes.
Tick ==
    /\ now < MaxClock
    /\ now' = now + 1
    /\ UNCHANGED <<dictionary, language_data, dictFile, langFile, csvFile, backups,
                   fault, faults, last, definition_module, workers>>

(***************************************************************************)
(* The state after __init__ on an empty data directory: ensure_files_exist *)
(* has written both backing files and load_data has read them.             *)
(***************************************************************************)
\* DefinitionModule.load_dictionary(): the file's content, or {} when the
\* file is missing or is no JSON.
LoadDictionary(df) == IF df.exists /\ df.valid THEN df.data ELSE EmptyDict

\* The worker threads the GUI starts for fetch_and_add_word.
Workers == 1..MaxWorkers

\* A worker that runs no call: pc is the step of add_word it is at, word and
\* language the call's arguments, fetched the record the API answered with,
\* result what the call returned.
Idle ==
    [pc |-> "idle", word |-> <<>>, language |-> <<>>,
     fetched |-> Entry(<<>>, <<>>, <<>>), result |-> Result("add_word", FALSE, <<>>)]

Init ==
    /\ dictionary = EmptyDict
    /\ language_data = DefaultLanguages
    /\ dictFile = JsonFile(EmptyDict)
    /\ langFile = JsonFile(DefaultLanguages)
    /\ csvFile = NoCsv
    /\ backups = EmptyDict
    /\ now = 0
    /\ fault = "none"
    /\ faults = 0
    /\ last = Result("__init__", TRUE, <<>>)
    /\ definition_module = [language |-> EN, dictionary |-> LoadDictionary(dictFile)]
    /\ workers = [t \in Workers |-> Idle]

\* load_data(), reading the two backing files: any file missing or malformed
\* leaves both structures empty.
LoadData(df, lf) ==
    IF ValidateJson(df) /\ ValidateJson(lf)
        THEN [dictionary |-> df.data, language_data |-> lf.data]
        ELSE [dictionary |-> EmptyDict, language_data |-> EmptyDict]

\* The state after __init__ where ensure_files_exist could not create one of
\* the backing files or both (it logs the error and goes on) and load_data
\* has read what there is.
InitSave ==
    /\ dictFile \in {JsonFile(EmptyDict), NoFile}
    /\ langFile \in {JsonFile(DefaultLanguages), NoFile}
    /\ dictionary = LoadData(dictFile, langFile).dictionary
    /\ language_data = LoadData(dictFile, langFile).language_data
    /\ csvFile = NoCsv
    /\ backups = EmptyDict
    /\ now = 0
    /\ fault = "none"
    /\ faults = 0
    /\ last = Result("__init__", TRUE, <<>>)
    /\ definition_module = [language |-> EN, dictionary |-> LoadDictionary(dictFile)]
    /\ workers = [t \in Workers |-> Idle]

Next ==
    \/ \E word \in Words, language \in Languages, args \in AddArgs,
          response \in ApiResponses :
          AddWord(word, language, args[1], args[2], args[3], response)
    \/ \E word \in Words, language \in Languages, args \in ManualArgs :
          ManualAddWord(word, language, args[1], args[2], args[3])
    \/ \E word \in Words, language \in Languages : RemoveWord(word, language)
    \/ \E file \in ImportFiles, language \in Languages :
          ImportDictionaryFromCsv(file, language)

\* The operations, with the file system failing up to MaxFaults times.
NextIO ==
    \/ \E word \in WordsIO, args \in AddArgs, response \in ApiResponses :
          AddWord(word, EN, args[1], args[2], args[3], response)
    \/ \E word \in WordsIO, args \in ManualArgs :
          ManualAddWord(word, EN, args[1], args[2], args[3])
    \/ \E word \in WordsIO : RemoveWord(word, EN)
    \/ \E file \in ImportFiles : ImportDictionaryFromCsv(file, EN)
    \/ \E f \in Faults : InjectFault(f)

SpecIO == Init /\ [][NextIO]_vars

\* The operations, with callers passing blank fields and the API answering
\* with records that lack a field.
NextFields ==
    \/ \E word \in WordsFields, args \in AddArgsFields,
          response \in ApiResponsesFields :
          AddWord(word, EN, args[1], args[2], args[3], response)
    \/ \E word \in WordsFields, args \in ManualArgsFields :
          ManualAddWord(word, EN, args[1], args[2], args[3])
    \/ \E word \in WordsFields : RemoveWord(word, EN)
    \/ ImportDictionaryFromCsv(CsvFile(<<LineCNoDefinition, LineAp, LineBNoExample>>), EN)

SpecFields == Init /\ [][NextFields]_vars

\* The operations that save, on a manager whose backing files may be missing.
NextSave ==
    \/ \E word \in WordsIO, args \in AddArgs, response \in ApiResponses :
          AddWord(word, EN, args[1], args[2], args[3], response)
    \/ \E word \in WordsIO, args \in ManualArgs :
          ManualAddWord(word, EN, args[1], args[2], args[3])
    \/ \E word \in WordsIO : RemoveWord(word, EN)

SpecSave == InitSave /\ [][NextSave]_vars

\* The process ends and a new DictionaryManager is constructed on the same
\* paths: ensure_files_exist writes the files that are missing, load_data reads
\* both.
Restart ==
    LET df == IF dictFile.exists THEN dictFile ELSE JsonFile(EmptyDict)
        lf == IF langFile.exists THEN langFile ELSE JsonFile(DefaultLanguages)
    IN  /\ dictFile' = df
        /\ langFile' = lf
        /\ dictionary' = LoadData(df, lf).dictionary
        /\ language_data' = LoadData(df, lf).language_data
        /\ last' = Result("__init__", TRUE, <<>>)
        /\ UNCHANGED <<csvFile, backups, now, fault, faults, definition_module, workers>>

\* Saves with any of their steps failing, the clock running, and restarts.
NextSaveIO ==
    \/ \E word \in WordsFields : ManualAddWord(word, EN, D1, POS, EX)
    \/ \E word \in WordsFields : RemoveWord(word, EN)
    \/ SaveDataCall
    \/ \E f \in FaultsSave : InjectFault(f)
    \/ Tick
    \/ Restart

SpecSaveIO == InitSave /\ [][NextSaveIO]_vars

\* The words of the runs with lookups: "Ap", " AP" and "b".
WordsQuery == {<<"A", "p">>, <<" ", "A", "P">>, <<"b">>}

\* Adding and removing words, with the lookups and the export called on their
\* own.
NextQuery ==
    \/ \E word \in WordsQuery, language \in Languages, args \in ManualArgs :
          ManualAddWord(word, language, args[1], args[2], args[3])
    \/ \E word \in WordsQuery, language \in Languages : RemoveWord(word, language)
    \/ \E word \in WordsQuery, language \in Languages : GetDefinition(word, language)
    \/ \E language \in Languages : ListWords(language)
    \/ \E language \in Languages : ExportDictionaryToCsvCall(language)

SpecQuery == Init /\ [][NextQuery]_vars

Spec == Init /\ [][Next]_vars

(***************************************************************************)
(* ConfidenceModule.  Scores are floats with at most one decimal: they are *)
(* kept in tenths, 2.0 as 20 and 100.0 as 1000.                            *)
(***************************************************************************)
\* Words of the short inputs.
MaxWords == 3

\* ConfidenceModule.__init__'s defaults, in tenths.
high_multiplier == 20
partial_multiplier == 15
max_confidence == 1000

\* Words of each argument of the max-cap test.
SixtyWords == 60

\* A Python value handed to calculate_confidence: its type and, in repr, the
\* characters of the string itself or, for another type, of str(value).
PyStr(s) == [type |-> "str", repr |-> s]

PyNone == [type |-> "NoneType", repr |-> None]

\* 12345
PyInt == [type |-> "int", repr |-> <<"1", "2", "3", "4", "5">>]

\* ["list", "of", "words"], whose str() is ['list', 'of', 'words']
PyList ==
    [type |-> "list",
     repr |-> <<"[", "'", "l", "i", "s", "t", "'", ",", " ", "'", "o", "f", "'",
                ",", " ", "'", "w", "o", "r", "d", "s", "'", "]">>]

\* {"key": "value"}, whose str() is {'key': 'value'}
PyDict ==
    [type |-> "dict",
     repr |-> <<"{", "'", "k", "e", "y", "'", ":", " ", "'", "v", "a", "l", "u",
                "e", "'", "}">>]

\* " ".join(["w"] * n)
RECURSIVE Text(_)
Text(n) ==
    IF n = 0 THEN <<>>
    ELSE IF n = 1 THEN <<"w">>
    ELSE Text(n \div 2) \o <<" ">> \o Text(n - n \div 2)

\* The arguments calculate_confidence is called with: absent, empty,
\* whitespace only, padded, one to MaxWords words, as many words as reach the
\* cap with either multiplier, and values that are no strings.
ConfidenceInputs ==
    {PyNone, PyStr(<<>>), PyStr(<<" ", " ", " ">>), PyStr(<<" ", "w", " ", " ", "w", " ">>),
     PyInt, PyList, PyDict}
        \cup {PyStr(Text(n)) : n \in 1..MaxWords}
        \cup {PyStr(Text(n)) : n \in {max_confidence \div (2 * high_multiplier),
                                      SixtyWords,
                                      max_confidence \div partial_multiplier + 1}}

Min(a, b) == IF a <= b THEN a ELSE b

\* The maximal runs of non-whitespace characters of s[lo..hi], found by
\* cutting at the whitespace character nearest the middle.
RECURSIVE SplitRange(_, _, _)
SplitRange(s, lo, hi) ==
    LET spaces == {i \in lo..hi : IsSpace(s[i])}
        right == {i \in spaces : i >= (lo + hi) \div 2}
        cut == IF right # {}
               THEN CHOOSE i \in right : \A j \in right : i <= j
               ELSE CHOOSE i \in spaces : \A j \in spaces : j <= i
    IN  IF lo > hi THEN <<>>
        ELSE IF spaces = {} THEN <<SubSeq(s, lo, hi)>>
        ELSE SplitRange(s, lo, cut - 1) \o SplitRange(s, cut + 1, hi)

\* s.split()
Split(s) == SplitRange(s, 1, Len(s))

\* A calculate_confidence with one multiplier for every case.
CalculateConfidenceOneMultiplier(definition, example) ==
    LET d == IF definition.type = "NoneType" THEN <<>> ELSE definition.repr
        e == IF example.type = "NoneType" THEN <<>> ELSE example.repr
    IN  IF d = <<>> /\ e = <<>> THEN 0
        ELSE Min(max_confidence, (Len(Split(d)) + Len(Split(e))) * high_multiplier)

\* A calculate_confidence that does not cap the product.
CalculateConfidenceUncapped(definition, example) ==
    LET d == IF definition.type = "NoneType" THEN <<>> ELSE definition.repr
        e == IF example.type = "NoneType" THEN <<>> ELSE example.repr
    IN  IF d # <<>> /\ e # <<>> THEN (Len(Split(d)) + Len(Split(e))) * high_multiplier
        ELSE IF d # <<>> THEN Len(Split(d)) * partial_multiplier
        ELSE Len(Split(e)) * partial_multiplier

\* calculate_confidence(definition, example): the score, in tenths.
CalculateConfidence(definition, example) ==
    LET d == IF definition.type # "str"
             THEN IF definition.type = "NoneType" THEN <<>> ELSE definition.repr
             ELSE definition.repr
        e == IF example.type # "str"
             THEN IF example.type = "NoneType" THEN <<>> ELSE example.repr
             ELSE example.repr
        definition_word_count == Len(Split(d))
        example_word_count == Len(Split(e))
        total_word_count == definition_word_count + example_word_count
    IN  IF d # <<>> /\ e # <<>>
        THEN Min(max_confidence, total_word_count * high_multiplier)
        ELSE IF d # <<>> \/ e # <<>>
        THEN LET single_word_count ==
                     IF d # <<>> THEN definition_word_count ELSE example_word_count
             IN  Min(max_confidence, single_word_count * partial_multiplier)
        ELSE 0

\* A call of calculate_confidence: last keeps the arguments and the score.
CalculateConfidenceCall(definition, example) ==
    /\ last' = Result("calculate_confidence", TRUE,
                      <<definition, example, CalculateConfidence(definition, example)>>)
    /\ UNCHANGED <<dictionary, language_data, dictFile, langFile, csvFile, backups,
                   now, fault, faults, definition_module, workers>>

NextConfidence ==
    \E definition \in ConfidenceInputs, example \in ConfidenceInputs :
        CalculateConfidenceCall(definition, example)

SpecConfidence == Init /\ [][NextConfidence]_vars

(***************************************************************************)
(* add_word run by the GUI's worker threads.  The manager holds no lock:   *)
(* a thread may be preempted between the existence check, the request to   *)
(* the API, the store, save_data() and the export.                         *)
(***************************************************************************)
\* What the API answers a worker's request with.
ApiResponsesWorkers == {Api404, ApiFull, ApiNoExample}

\* Worker t's call returns result.
WorkerReturns(t, result) ==
    /\ workers' = [workers EXCEPT ![t].pc = "done", ![t].result = result]
    /\ last' = result

\* QAInterface.add_new_word: the word typed, trimmed and lower-cased, is not
\* empty and get_definition does not find it; a thread is started that will
\* call add_word(word, language).
WorkerStart(t, word, language) ==
    LET w == Lower(Strip(word))
    IN  /\ workers[t].pc = "idle"
        /\ w # <<>>
        /\ ~GetDefinitionOutcome(w, language).last.ok
        /\ workers' = [workers EXCEPT ![t].pc = "check", ![t].word = w,
                                      ![t].language = language]
        /\ UNCHANGED <<dictionary, language_data, dictFile, langFile, csvFile, backups,
                       now, fault, faults, last, definition_module>>

\* add_word up to the existence check: the word normalised, the language's
\* bucket created, the call refused if the word is there.
WorkerCheck(t) ==
    LET w == NormalizeWord(workers[t].word)
        language == workers[t].language
        dict == WithBucket(dictionary, language)
    IN  /\ workers[t].pc = "check"
        /\ IF w = <<>>
               THEN /\ WorkerReturns(t, Result("add_word", FALSE, MsgEmptyWord))
                    /\ UNCHANGED dictionary
           ELSE IF Has(Get(dict, language), w)
               THEN /\ WorkerReturns(t, Result("add_word", FALSE, MsgExists))
                    /\ dictionary' = dict
           ELSE /\ workers' = [workers EXCEPT ![t].pc = "fetch", ![t].word = w]
                /\ dictionary' = dict
                /\ UNCHANGED last
        /\ UNCHANGED <<language_data, dictFile, langFile, csvFile, backups, now, fault,
                       faults, definition_module>>

\* add_word's request to the API, no field having been supplied.
WorkerFetch(t, response) ==
    LET fetched_data == FetchDefinitionFromApi(response)
    IN  /\ workers[t].pc = "fetch"
        /\ IF fetched_data.found
               THEN /\ workers' =
                          [workers EXCEPT ![t].pc = "store",
                                          ![t].fetched =
                                              Entry(fetched_data.definition,
                                                    fetched_data.part_of_speech,
                                                    fetched_data.example)]
                    /\ UNCHANGED last
               ELSE WorkerReturns(t, Result("add_word", FALSE, MsgManual))
        /\ UNCHANGED <<dictionary, language_data, dictFile, langFile, csvFile, backups,
                       now, fault, faults, definition_module>>

\* self.dictionary[language][word] = {...}
WorkerStore(t) ==
    LET me == workers[t]
        example == me.fetched.example
    IN  /\ me.pc = "store"
        /\ dictionary' =
               Store(dictionary, me.language, me.word,
                     Entry(Strip(me.fetched.definition), Strip(me.fetched.part_of_speech),
                           IF Truthy(example) THEN Strip(example) ELSE <<>>))
        /\ workers' = [workers EXCEPT ![t].pc = "save"]
        /\ UNCHANGED <<language_data, dictFile, langFile, csvFile, backups, now, fault,
                       faults, last, definition_module>>

\* self.save_data()
WorkerSave(t) ==
    LET saved == SaveData(dictionary, language_data)
    IN  /\ workers[t].pc = "save"
        /\ dictFile' = saved.dictFile
        /\ langFile' = saved.langFile
        /\ backups' = saved.backups
        /\ workers' = [workers EXCEPT ![t].pc = "export"]
        /\ UNCHANGED <<dictionary, language_data, csvFile, now, fault, faults, last,
                       definition_module>>

\* self.export_dictionary_to_csv(language, self.export_csv_path) and the
\* return of success.
WorkerExport(t) ==
    /\ workers[t].pc = "export"
    /\ csvFile' = ExportDictionaryToCsv(dictionary, workers[t].language).csvFile
    /\ fault' = "none"
    /\ WorkerReturns(t, Result("add_word", TRUE, MsgAdded))
    /\ UNCHANGED <<dictionary, language_data, dictFile, langFile, backups, now, faults,
                   definition_module>>

NextWorkers ==
    \E t \in Workers :
        \/ \E word \in WordsFields : WorkerStart(t, word, EN)
        \/ WorkerCheck(t)
        \/ \E response \in ApiResponsesWorkers : WorkerFetch(t, response)
        \/ WorkerStore(t)
        \/ WorkerSave(t)
        \/ WorkerExport(t)

SpecWorkers == Init /\ [][NextWorkers]_vars

(***************************************************************************)
(* DefinitionModule, which TaskManager opens on the files of the           *)
(* DictionaryManager.  It keeps its own self.dictionary, read when it is   *)
(* constructed or reloaded.                                                *)
(***************************************************************************)
\* DefinitionModule.save_dictionary(): self.dictionary dumped over the file.
SaveDictionary(dict) == JsonFile(dict)

\* A call of the DefinitionModule that leaves dict in its memory and file
\* at dictionary_path, and returns result.
DefinitionModuleCall(dict, file, result) ==
    /\ definition_module' = [definition_module EXCEPT !.dictionary = dict]
    /\ dictFile' = file
    /\ last' = result
    /\ UNCHANGED <<dictionary, language_data, langFile, csvFile, backups, now, fault,
                   faults, workers>>

\* DefinitionModule.add_word(word, definition, part_of_speech, example)
DefinitionModuleAddWord(word, definition, part_of_speech, example) ==
    LET language == definition_module.language
        valid == \A arg \in {word, definition, part_of_speech} :
                     arg # None /\ Strip(arg) # <<>>
        w == Lower(word)
        dict == WithBucket(definition_module.dictionary, language)
        stored == Store(dict, language, w,
                        Entry(Strip(definition), Strip(part_of_speech),
                              IF Truthy(example) THEN Strip(example) ELSE <<>>))
        Ret(ok) == Result("definition_module.add_word", ok, w)
    IN  IF ~valid
            THEN DefinitionModuleCall(definition_module.dictionary, dictFile, Ret(FALSE))
        ELSE IF Has(Get(dict, language), w)
            THEN DefinitionModuleCall(dict, dictFile, Ret(FALSE))
        ELSE DefinitionModuleCall(stored, SaveDictionary(stored), Ret(TRUE))

\* DefinitionModule.remove_word(word)
DefinitionModuleRemoveWord(word) ==
    LET language == definition_module.language
        dict == definition_module.dictionary
        w == Lower(word)
        language_dict == IF Has(dict, language) THEN Get(dict, language) ELSE EmptyDict
        removed == Put(dict, language, Del(language_dict, w))
        Ret(ok) == Result("definition_module.remove_word", ok, w)
    IN  IF word = None \/ Strip(word) = <<>>
            THEN DefinitionModuleCall(dict, dictFile, Ret(FALSE))
        ELSE IF ~Has(language_dict, w)
            THEN DefinitionModuleCall(dict, dictFile, Ret(FALSE))
        ELSE DefinitionModuleCall(removed, SaveDictionary(removed), Ret(TRUE))

\* DefinitionModule.reload_dictionary()
ReloadDictionary ==
    DefinitionModuleCall(LoadDictionary(dictFile), dictFile,
                         Result("definition_module.reload_dictionary", TRUE, <<>>))

NextStores ==
    \/ \E word \in WordsFields : ManualAddWord(word, EN, D1, POS, EX)
    \/ \E word \in WordsFields : RemoveWord(word, EN)
    \/ \E word \in WordsFields \cup {Blank} : DefinitionModuleAddWord(word, D2, POS, EX)
    \/ \E word \in WordsFields \cup {Blank} : DefinitionModuleRemoveWord(word)
    \/ ReloadDictionary

SpecStores == Init /\ [][NextStores]_vars

(***************************************************************************)
(* Claims.                                                                 *)
(***************************************************************************)
\* The bucket of language in dict, empty when there is none.
Bucket(dict, language) == IF Has(dict, language) THEN Get(dict, language) ELSE EmptyDict

\* C1: in every bucket every word key is in lower-cased, trimmed form, so no
\* two keys of a bucket are equal after lower-casing and trimming; and
\* add_word or manual_add_word of a word whose lower-cased, trimmed form is
\* already a key of the language fails with the already-exists message and
\* leaves the bucket as it is.
C1_KeysNormalized ==
    \A language \in DOMAIN dictionary :
        /\ \A k \in DOMAIN dictionary[language] : Strip(Lower(k)) = k
        /\ \A k1, k2 \in DOMAIN dictionary[language] :
              Strip(Lower(k1)) = Strip(Lower(k2)) => k1 = k2

C1_DuplicateRejected ==
    \A word \in Words, language \in Languages :
        Strip(Lower(word)) \in DOMAIN Bucket(dictionary, language) =>
            /\ \A args \in AddArgs, response \in ApiResponses :
                  LET after == AddWordOutcome(word, language, args[1], args[2],
                                              args[3], response)
                  IN  /\ after.last = Result("add_word", FALSE, MsgExists)
                      /\ after.dictionary = dictionary
            /\ \A args \in ManualArgs :
                  LET after == ManualAddWordOutcome(word, language, args[1],
                                                    args[2], args[3])
                  IN  /\ after.last = Result("manual_add_word", FALSE, MsgExists)
                      /\ after.dictionary = dictionary

C1_Uniqueness == C1_KeysNormalized /\ C1_DuplicateRejected

\* C1 witness: an add of a word already there was rejected, the bucket holding
\* one entry.
C1_Witness ==
    /\ last.op \in {"add_word", "manual_add_word"}
    /\ last.msg = MsgExists
    /\ Has(dictionary, EN)
    /\ DOMAIN dictionary[EN] = {<<"a", "p">>}

\* C2: once save_data has run, after every completed operation the in-memory
\* Lexicon equals the content the last successful save wrote to the backing
\* file. Every save_data leaves a backup of the file it replaces, and where no
\* save fails the backing file holds what the last save wrote.
C2_MemoryMirrorsFile ==
    backups # EmptyDict => dictFile.valid /\ dictFile.data = dictionary

\* The mirror holds exactly one row per entry of bucket, with its fields.
MirrorOf(mirror, bucket) ==
    /\ mirror.exists
    /\ mirror.header = Fieldnames
    /\ Len(mirror.lines) = Cardinality(DOMAIN bucket)
    /\ \A w \in DOMAIN bucket :
          \E i \in 1..Len(mirror.lines) :
              mirror.lines[i] = <<w, bucket[w].definition, bucket[w].part_of_speech,
                                  bucket[w].example>>

\* C3: whenever add_word or manual_add_word returns success for (word,
\* language), the backing file holds the normalized word under that language
\* and the mirror holds exactly one row per entry of that language.
C3_AddStep ==
    \A word \in Words, language \in Languages :
        (/\ last'.ok
         /\ \/ \E args \in AddArgs, response \in ApiResponses :
                  AddWord(word, language, args[1], args[2], args[3], response)
            \/ \E args \in ManualArgs :
                  ManualAddWord(word, language, args[1], args[2], args[3]))
        => /\ dictFile'.valid
           /\ Strip(Lower(word)) \in DOMAIN Bucket(dictFile'.data, language)
           /\ MirrorOf(csvFile', Bucket(dictionary', language))

C3_AddSuccessPersisted == [][C3_AddStep]_vars

\* C4: whenever remove_word(word, language) returns success, the word is absent
\* from that language in the backing file and the mirror has been regenerated
\* without it.
C4_RemoveStep ==
    \A word \in Words, language \in Languages :
        (RemoveWord(word, language) /\ last'.ok)
        => /\ dictFile'.valid
           /\ Strip(Lower(word)) \notin DOMAIN Bucket(dictFile'.data, language)
           /\ MirrorOf(csvFile', Bucket(dictionary', language))

C4_RemoveSuccessPersisted == [][C4_RemoveStep]_vars

\* C5: manual_add_word called with definition, part_of_speech or example empty
\* returns failure and leaves the in-memory Lexicon, the backing files and the
\* mirror unchanged.
C5_ManualStep ==
    \A word \in Words, language \in Languages, args \in ManualArgs :
        (/\ <<>> \in {args[1], args[2], args[3]}
         /\ ManualAddWord(word, language, args[1], args[2], args[3]))
        => /\ ~last'.ok
           /\ UNCHANGED <<dictionary, dictFile, langFile, csvFile>>

C5_ManualMissingFieldNoChange == [][C5_ManualStep]_vars

\* C6: add_word with missing fields, the fetcher returning nothing, returns
\* failure with the manual-entry marker, leaves the in-memory Lexicon and the
\* backing file unchanged and creates no mirror.
C6_FetchStep ==
    \A word \in Words, language \in Languages, args \in AddArgs,
       response \in ApiResponses :
        (/\ Strip(Lower(word)) # <<>>
         /\ Strip(Lower(word)) \notin DOMAIN Bucket(dictionary, language)
         /\ ~(Truthy(args[1]) /\ Truthy(args[2]) /\ Truthy(args[3]))
         /\ ~FetchDefinitionFromApi(response).found
         /\ AddWord(word, language, args[1], args[2], args[3], response))
        => /\ ~last'.ok
           /\ HasManualMarker(last'.msg)
           /\ UNCHANGED <<dictionary, dictFile>>
           /\ ~csvFile.exists => ~csvFile'.exists

C6_FetchNothingNoChange == [][C6_FetchStep]_vars

\* C7: an entry, once stored, keeps its definition, part_of_speech and example
\* in every step; it leaves its bucket only in a remove_word that returns
\* success.
C7_EntryStep ==
    \A language \in DOMAIN dictionary :
        \A w \in DOMAIN dictionary[language] :
            /\ language \in DOMAIN dictionary'
            /\ IF w \in DOMAIN dictionary'[language]
                   THEN dictionary'[language][w] = dictionary[language][w]
                   ELSE last' = Result("remove_word", TRUE, MsgRemoved)

RowWord(row) == Strip(Lower(row["word"]))
RowEntry(row) ==
    Entry(Strip(row["definition"]), Strip(row["part_of_speech"]), Strip(row["example"]))

\* A row skipped for no other reason than an empty word, definition or
\* part_of_speech.
Complete3(row) ==
    RowWord(row) # <<>> /\ RowEntry(row).definition # <<>>
    /\ RowEntry(row).part_of_speech # <<>>

\* A row skipped also for an empty example.
Complete4(row) == Complete3(row) /\ RowEntry(row).example # <<>>

\* An import of rows into bucket old that returns message and leaves bucket new
\* adds exactly the rows that are complete and whose word is neither in old nor
\* in an earlier complete row, leaves the entries of old as they are, and
\* reports the numbers of rows it added and skipped.
ImportedAsClaimed(rows, old, new, message, Complete(_)) ==
    LET accepted ==
            {i \in 1..Len(rows) :
                /\ Complete(rows[i])
                /\ RowWord(rows[i]) \notin DOMAIN old
                /\ \A j \in 1..(i - 1) :
                      Complete(rows[j]) => RowWord(rows[j]) # RowWord(rows[i])}
    IN  /\ message = MsgImported(Cardinality(accepted),
                                 Len(rows) - Cardinality(accepted))
        /\ DOMAIN new = DOMAIN old \cup {RowWord(rows[i]) : i \in accepted}
        /\ \A i \in accepted : new[RowWord(rows[i])] = RowEntry(rows[i])
        /\ \A w \in DOMAIN old : new[w] = old[w]
        /\ Cardinality(DOMAIN new) - Cardinality(DOMAIN old) = Cardinality(accepted)

C9_ImportStep ==
    \A file \in ImportFiles, language \in Languages :
        (ImportDictionaryFromCsv(file, language) /\ last'.ok)
        => ImportedAsClaimed(DictReader(file),
                             Bucket(dictionary, Lower(language)),
                             Bucket(dictionary', Lower(language)),
                             last'.msg, Complete4)

C9_ImportSkipsEmptyExample == [][C9_ImportStep]_vars

\* C10: an import that returns failure because a row raised leaves the
\* in-memory Lexicon as it was.
C10_ImportStep ==
    \A file \in ImportFiles, language \in Languages :
        (/\ ImportDictionaryFromCsv(file, language)
         /\ last' = Result("import_dictionary_from_csv", FALSE, MsgImportError))
        => dictionary' = dictionary

C10_FailedImportNoMutation == [][C10_ImportStep]_vars

\* C11: import_dictionary_from_csv of a file whose only line is arbitrary text
\* returns failure with the import-error message, adds no word to the Lexicon
\* and creates no mirror.
C11_InvalidStep ==
    \A language \in Languages :
        ImportDictionaryFromCsv(InvalidCsv, language)
        => /\ last' = Result("import_dictionary_from_csv", FALSE, MsgImportError)
           /\ dictionary' = dictionary
           /\ ~csvFile.exists => ~csvFile'.exists

C11_InvalidCsvFails == [][C11_InvalidStep]_vars

\* A language with no bucket, into which the exported file is imported.
PT == <<"p", "t">>

\* C12: for every bucket export_dictionary_to_csv can export, the import of the
\* exported file into an empty bucket yields the same words with the same
\* definition, part_of_speech and example.
C12_RoundTrip ==
    \A language \in DOMAIN dictionary :
        LET exported == ExportDictionaryToCsv(dictionary, language)
            end == ImportRows(DictReader(exported.csvFile), PT,
                              [dict |-> Put(dictionary, PT, EmptyDict),
                               added |-> 0, skipped |-> 0, raised |-> FALSE])
        IN  exported.ok =>
                /\ ~end.raised
                /\ end.dict[PT] = dictionary[Strip(Lower(language))]

\* The fields of an entry that are to be trimmed and non-empty.
Trimmed(text) == Strip(text) = text

\* C17: every stored entry has a non-empty definition and part_of_speech and
\* three trimmed fields, whatever blank fields callers pass, and an entry that
\* manual_add_word has just stored, or add_word from fetched data, has a
\* non-empty example.
C17_EntryStep ==
    /\ \A language \in DOMAIN dictionary' :
          \A w \in DOMAIN dictionary'[language] :
              LET entry == dictionary'[language][w]
              IN  /\ entry.definition # <<>> /\ entry.part_of_speech # <<>>
                  /\ Trimmed(entry.definition) /\ Trimmed(entry.part_of_speech)
                  /\ Trimmed(entry.example)
    /\ \A word \in Words, language \in Languages :
          (/\ last'.ok
           /\ \/ \E args \in AddArgsFields, response \in ApiResponsesFields :
                    /\ ~(Truthy(args[1]) /\ Truthy(args[2]) /\ Truthy(args[3]))
                    /\ AddWord(word, language, args[1], args[2], args[3], response)
              \/ \E args \in ManualArgsFields :
                    ManualAddWord(word, language, args[1], args[2], args[3]))
          => dictionary'[language][Strip(Lower(word))].example # <<>>

C17_EntriesTrimmedNonEmpty == [][C17_EntryStep]_vars

\* The definition, part_of_speech and example the API's answer holds, a field
\* the answer lacks being empty.
Answered(response) ==
    LET meanings ==
            IF response.status = 200 /\ Len(response.data) > 0
                THEN DictGet(response.data[1], "meanings", <<>>) ELSE <<>>
        definitions ==
            IF Len(meanings) > 0 THEN DictGet(meanings[1], "definitions", <<>>) ELSE <<>>
    IN  IF Len(definitions) > 0
            THEN Entry(DictGet(definitions[1], "definition", <<>>),
                       DictGet(meanings[1], "partOfSpeech", <<>>),
                       DictGet(definitions[1], "example", <<>>))
            ELSE Entry(<<>>, <<>>, <<>>)

\* C18: when add_word asks the API and the answer lacks a non-empty definition,
\* part_of_speech or example, add_word returns failure and stores nothing in
\* the bucket.
C18_FetchStep ==
    \A word \in WordsFields, language \in Languages, args \in AddArgsFields,
       response \in ApiResponsesFields :
        (/\ ~(Truthy(args[1]) /\ Truthy(args[2]) /\ Truthy(args[3]))
         /\ Strip(Lower(word)) # <<>>
         /\ Strip(Lower(word)) \notin DOMAIN Bucket(dictionary, language)
         /\ <<>> \in {Answered(response).definition,
                      Answered(response).part_of_speech,
                      Answered(response).example}
         /\ AddWord(word, language, args[1], args[2], args[3], response))
        => /\ ~last'.ok
           /\ Bucket(dictionary', language) = Bucket(dictionary, language)

C18_FetchedIncompleteRejected == [][C18_FetchStep]_vars

NoOp(after, result) ==
    /\ after.last = result
    /\ after.dictionary = dictionary
    /\ after.dictFile = dictFile /\ after.langFile = langFile
    /\ after.backups = backups
    /\ after.csvFile = csvFile

C15_LanguagesNormalized ==
    /\ \A key \in DOMAIN dictionary : Strip(Lower(key)) = key
    /\ \A language \in Languages :
          \A w \in DOMAIN Bucket(dictionary, language) :
              /\ ListWordsOutcome(language).last.ok
              /\ \E i \in 1..Len(ListWordsOutcome(language).last.msg) :
                    ListWordsOutcome(language).last.msg[i] = w
              /\ ExportDictionaryToCsvOutcome(language).last.ok
              /\ \E i \in 1..Len(ExportDictionaryToCsvOutcome(language).csvFile.lines) :
                    ExportDictionaryToCsvOutcome(language).csvFile.lines[i][1] = w
              /\ GetDefinitionOutcome(w, language).last.ok
              /\ RemoveWordOutcome(w, language).last.ok

\* C16: get_definition(v, language) returns the entry stored in that language
\* under the lower-cased, trimmed v, or None when the language or the word is
\* absent, and changes neither the Lexicon nor any file.
C16_GetDefinitionPure ==
    \A word \in Words, language \in Languages :
        LET w == Strip(Lower(word))
        IN  NoOp(GetDefinitionOutcome(word, language),
                 IF w \in DOMAIN Bucket(dictionary, language)
                     THEN Result("get_definition", TRUE, dictionary[language][w])
                     ELSE Result("get_definition", FALSE, None))

\* C16 witness: a lookup has returned the entry of "ap", stored by
\* manual_add_word.
C16_Witness ==
    /\ last.op = "get_definition" /\ last.ok
    /\ Has(dictionary, EN) /\ Has(dictionary[EN], <<"a", "p">>)
    /\ last.msg = dictionary[EN][<<"a", "p">>]
    /\ last.msg = Entry(<<"x">>, <<"n">>, <<"e">>)

\* C20: in a call that saves (one that returns success), each backing file
\* that exists when the save starts has a backup under the save's timestamp
\* that holds its content from before the save; a backing file that does not
\* exist gets no backup, and the save still writes the new content of both
\* files.
C20_SaveStep ==
    last'.ok =>
        /\ dictFile.exists =>
              /\ Has(backups', <<"dictionary", now>>)
              /\ backups'[<<"dictionary", now>>] = dictFile
        /\ langFile.exists =>
              /\ Has(backups', <<"language_data", now>>)
              /\ backups'[<<"language_data", now>>] = langFile
        /\ ~dictFile.exists => ~Has(backups', <<"dictionary", now>>)
        /\ ~langFile.exists => ~Has(backups', <<"language_data", now>>)
        /\ (~dictFile.exists \/ ~langFile.exists) =>
              /\ dictFile' = [exists |-> TRUE, valid |-> TRUE, data |-> dictionary']
              /\ langFile' = [exists |-> TRUE, valid |-> TRUE, data |-> language_data']

C20_BackupBeforeOverwrite == [][C20_SaveStep]_vars

\* C21: save_data returns (it does not raise); it returns False when a backup
\* copy, a write or the validation fails, or a backing file is missing; and the
\* Lexicon and the Language Registry in memory are after the call what they
\* were before it.
C21_SaveStep ==
    SaveDataCall =>
        /\ last'.op = "save_data" /\ last'.ok \in BOOLEAN
        /\ dictionary' = dictionary /\ language_data' = language_data
        /\ (fault \in {"copy_dict", "copy_lang", "write_dict", "write_lang", "validate"}
            \/ ~dictFile.exists \/ ~langFile.exists) => ~last'.ok

C21_SaveNeverRaises == [][C21_SaveStep]_vars

\* C21 witness: a save_data whose write of the dictionary file failed has
\* returned False, the entry "b" still in memory.
C21_Witness ==
    /\ last.op = "save_data" /\ ~last.ok
    /\ dictFile = [exists |-> TRUE, valid |-> FALSE, data |-> EmptyDict]
    /\ Has(dictionary, EN) /\ Has(dictionary[EN], <<"b">>)

\* C22: after the load_data of a restart each structure holds the content of its backing file
\* when that file is well-formed, and is empty when it is missing or
\* malformed, whatever the state of the other file.
C22_LoadStep ==
    Restart =>
        /\ dictionary' = IF dictFile'.exists /\ dictFile'.valid
                             THEN dictFile'.data ELSE EmptyDict
        /\ language_data' = IF langFile'.exists /\ langFile'.valid
                                THEN langFile'.data ELSE EmptyDict

C22_LoadPerStructure == [][C22_LoadStep]_vars

\* C30: a save_data that returns True leaves, under its timestamp, a backup
\* holding the dictionary file's content from before the save, and no step
\* changes or replaces a backup that exists.
C30_BackupStep ==
    /\ (SaveDataCall /\ last'.ok) =>
          /\ Has(backups', <<"dictionary", now>>)
          /\ backups'[<<"dictionary", now>>] = dictFile
    /\ \A k \in DOMAIN backups : Has(backups', k) /\ backups'[k] = backups[k]

C30_BackupsKept == [][C30_BackupStep]_vars

\* C29: add_word asks the fetcher exactly when the word is non-empty, not in
\* the language, and one of definition, part_of_speech, example is missing or
\* empty: then what the call does follows the API's answer, failing on 404 and
\* storing the whole fetched record on an answer, the supplied fields
\* discarded; otherwise the call does the same whatever the API would answer,
\* and with the three fields supplied stores their trimmed values.
C29_FetchIff ==
    \A word \in WordsFields \cup {Blank}, language \in Languages, args \in AddArgsFields :
        LET w == Strip(Lower(word))
            supplied == \A i \in 1..3 : args[i] # None /\ args[i] # <<>>
            asks == w # <<>> /\ w \notin DOMAIN Bucket(dictionary, language) /\ ~supplied
            After(response) ==
                AddWordOutcome(word, language, args[1], args[2], args[3], response)
        IN  /\ asks =>
                  /\ After(Api404).last = Result("add_word", FALSE, MsgManual)
                  /\ After(ApiFull).last = Result("add_word", TRUE, MsgAdded)
                  /\ After(ApiFull).dictionary[language][w] =
                        Entry(<<"x">>, <<"n">>, <<"e">>)
            /\ ~asks =>
                  \A response \in ApiResponsesFields : After(response) = After(Api404)
            /\ (w # <<>> /\ w \notin DOMAIN Bucket(dictionary, language) /\ supplied) =>
                  /\ After(Api404).last = Result("add_word", TRUE, MsgAdded)
                  /\ After(Api404).dictionary[language][w] =
                        Entry(Strip(args[1]), Strip(args[2]), Strip(args[3]))

\* C29 witness: add_word has stored "b" from the fetched record.
C29_Witness ==
    /\ last = Result("add_word", TRUE, MsgAdded)
    /\ Has(dictionary, EN) /\ Has(dictionary[EN], <<"b">>)
    /\ dictionary[EN][<<"b">>] = Entry(<<"x">>, <<"n">>, <<"e">>)

\* Whether last is the outcome of a call of calculate_confidence.
Scored == last.op = "calculate_confidence"

\* The number of whitespace-separated words of s: the positions where a word
\* starts.
wc(s) ==
    Cardinality({i \in 1..Len(s) : s[i] # " " /\ (i = 1 \/ s[i - 1] = " ")})

\* The characters counted for an argument: none for None, the string itself,
\* the string representation of any other value.
Counted(value) == IF value = PyNone THEN <<>> ELSE value.repr

WhitespaceOnly(value) ==
    /\ value.type = "str"
    /\ value.repr # <<>>
    /\ \A i \in 1..Len(value.repr) : value.repr[i] = " "

\* The score the partial formula gives an input alone.
Alone(value) == Min(1000, wc(Counted(value)) * 15)

\* C24: a whitespace-only input counts as empty: with a whitespace-only
\* definition the score is the partial-multiplier formula on the example (0
\* when the example has no words), and symmetrically for a whitespace-only
\* example.
C24_WhitespaceIsEmpty ==
    Scored =>
        /\ WhitespaceOnly(last.msg[1]) => last.msg[3] = Alone(last.msg[2])
        /\ WhitespaceOnly(last.msg[2]) => last.msg[3] = Alone(last.msg[1])

\* From one score to the next: the score lies in [0, 100]; it is exactly 100
\* once the product reaches 100; and it has not decreased if the word count of
\* one argument grew while the other argument stayed.
C25_ScoreStep ==
    Scored' =>
        LET d == Counted(last'.msg[1])
            e == Counted(last'.msg[2])
            score == last'.msg[3]
            product == IF d # <<>> /\ e # <<>> THEN (wc(d) + wc(e)) * 20
                       ELSE (wc(d) + wc(e)) * 15
        IN  /\ 0 <= score /\ score <= 1000
            /\ product >= 1000 => score = 1000
            /\ (wc(d) = 60 /\ wc(e) = 60) => score = 1000
            /\ Scored =>
                  /\ ( /\ last.msg[2] = last'.msg[2]
                       /\ wc(Counted(last.msg[1])) < wc(d) ) => last.msg[3] <= score
                  /\ ( /\ last.msg[1] = last'.msg[1]
                       /\ wc(Counted(last.msg[2])) < wc(e) ) => last.msg[3] <= score

\* C25: the score always lies in [0, max_confidence], never decreases when the
\* word count of the definition or of the example increases with the other
\* input fixed, and is exactly max_confidence once the unclamped product
\* reaches it (60 words with 60 words give 100.0).
C25_BoundedMonotoneCapped == [][C25_ScoreStep]_vars

\* C25 witness: sixty words with sixty words scored 100.0.
C25_Witness ==
    /\ Scored
    /\ last.msg = <<PyStr(Text(60)), PyStr(Text(60)), 1000>>

\* C26: when the definition or the example is not a string (None, a number, a
\* list, a dict) the score is 0.0 whatever the other argument is.
C26_NonStringScoresZero ==
    (Scored /\ (last.msg[1].type # "str" \/ last.msg[2].type # "str")) =>
        last.msg[3] = 0

\* C27: when two add_word calls for the same normalised word and language
\* run at the same time, at most one of them returns success, whatever the
\* interleaving of their check, fetch, store and save steps.
C27_AtMostOneSuccess ==
    \A t1 \in Workers, t2 \in Workers :
        ( /\ t1 # t2
          /\ workers[t1].pc = "done" /\ workers[t2].pc = "done"
          /\ workers[t1].word = workers[t2].word
          /\ workers[t1].language = workers[t2].language )
            => ~(workers[t1].result.ok /\ workers[t2].result.ok)

\* A call of DefinitionModule.add_word or remove_word has just returned.
ModuleMutation ==
    last'.op \in {"definition_module.add_word", "definition_module.remove_word"}

\* Across an add_word or remove_word of the DefinitionModule: every entry of
\* another word that the DictionaryManager holds and had in the backing file
\* is in the backing file afterwards.
C28_ModuleStep ==
    ModuleMutation =>
        \A k \in DOMAIN Bucket(dictionary, EN) :
            ( /\ k # last'.msg
              /\ dictFile.exists /\ dictFile.valid
              /\ k \in DOMAIN Bucket(dictFile.data, EN)
              /\ dictFile.data[EN][k] = dictionary[EN][k] )
                => /\ dictFile'.exists /\ dictFile'.valid
                   /\ k \in DOMAIN Bucket(dictFile'.data, EN)
                   /\ dictFile'.data[EN][k] = dictionary[EN][k]

\* C28: with a DictionaryManager and a DefinitionModule open on the same
\* backing file, an entry the DictionaryManager added and persisted is still
\* in the file after any later DefinitionModule.add_word or remove_word of a
\* different word.
C28_OtherStoreKeepsEntries == [][C28_ModuleStep]_vars

====
